---- MODULE Spec2Model ----
(***************************************************************************)
(* A model of LiberTEM's base dataset layer:                               *)
(*   io/dataset/base/partition.py  Partition.make_slices, BasePartition    *)
(*   io/dataset/base/fileset.py    FileSet                                 *)
(*   udf/raw.py                    PickUDF                                 *)
(* Each group of operations has its own specification over the shared      *)
(* variables; the variables a specification does not use stay at their     *)
(* initial value.                                                          *)
(***************************************************************************)
EXTENDS Integers, Sequences, FiniteSets, TLC

\* ---------------------------------------------------------------- bounds
MaxFrames == 6      \* largest nav size given to make_slices
MaxParts == 4       \* largest num_partitions given to make_slices
MaxFiles == 3       \* most files in a dataset-wide FileSet
MaxFileLen == 2     \* most frames in one file
MaxReads == 2       \* most reads made in one read session
MaxNav == 3         \* nav size of the dataset that is tiled and picked
MaxDepth == 2       \* largest tile depth of a tiling scheme
MaxVal == 1         \* largest value of a frame; the dtype wraps above it

VARIABLES
    \* the dataset's signal shape (shape.sig), a tuple of extents
    dsSig,
    \* Partition.make_slices: arguments, locals and what was yielded so far
    num_frames, num_partitions, f_per_part, c0, c1, slices, ms_pc,
    \* the dataset-wide FileSet: FileSet._files, a File being its frame range;
    \* a File object is identified by its position in this list
    files,
    \* the latest call made on the FileSet layer and how it ended
    fsCall,
    \* the partitions of a run: their ids, frame ranges, and for every
    \* BasePartition its own FileSet (_fileset._files, as File objects)
    parts, partRange, partFiles,
    \* per File object: whether it holds an open handle
    isOpen,
    \* per partition: FileSet._files_open, where its read session stands, and
    \* the reads its session has made
    files_open, se_pc, reads,
    \* the dataset read by get_tiles and PickUDF: its nav size, the ROI
    \* ([given |-> FALSE] for roi=None, else a mask over the frames 0..nav-1)
    \* and the tile depth of the tiling scheme
    dsNav, roi, depth,
    \* BasePartition.get_tiles on one partition: the partition, whether its
    \* validate_tiling_scheme passes or raises, where the generator stands,
    \* the calls it has made, the compiled read ranges, the tiles yielded
    tl_part, tl_validate, tl_pc, tl_log, read_ranges, tl_tiles,
    \* the value get_macrotile returned last
    macrotile,
    \* PickUDF over the whole dataset: each frame's content, the partitions'
    \* frame ranges, the global buffer and the partitions merged into it
    frames, mg_parts, dest, merged

msVars == <<num_frames, num_partitions, f_per_part, c0, c1, slices, ms_pc>>
fsVars == <<files, fsCall>>
seVars == <<parts, partRange, partFiles, isOpen, files_open, se_pc, reads>>
dsVars == <<dsNav, roi, depth>>
tlVars == <<tl_part, tl_validate, tl_pc, tl_log, read_ranges, tl_tiles, macrotile>>
mgVars == <<frames, mg_parts, dest, merged>>

Min(a, b) == IF a < b THEN a ELSE b
Max(a, b) == IF a > b THEN a ELSE b

\* tuple([0] * n)
Zeros(n) == [i \in 1..n |-> 0]

\* the signal shapes the datasets of the model have: 1, 2 and 3 signal axes
SigShapes == {<<2>>, <<2, 2>>, <<1, 2, 2>>}

\* ------------------------------------------------- Partition.make_slices

\* Slice(origin=(start,) + tuple([0] * shape.sig.dims),
\*       shape=Shape((stop - start,) + tuple(shape.sig), sig_dims=shape.sig.dims))
PartSlice(start, stop, sig) ==
    [origin |-> <<start>> \o Zeros(Len(sig)),
     shape |-> <<stop - start>> \o sig,
     sig_dims |-> Len(sig)]

\* f_per_part = max(1, num_frames // num_partitions)
FPerPart(n, k) == Max(1, n \div k)

\* the state of the generator right after make_slices(shape, num_partitions)
\* is called: the two counters stand at their start values
MakeSlicesInit ==
    /\ num_frames \in 0..MaxFrames
    /\ num_partitions \in 1..MaxParts
    /\ f_per_part = FPerPart(num_frames, num_partitions)
    /\ c0 = 0
    /\ c1 = f_per_part
    /\ slices = <<>>
    /\ ms_pc = "run"

\* a faulty variant of the loop body: stop is not clamped to num_frames
MakeSlicesYield_NoClamp ==
    /\ ms_pc = "run"
    /\ c0 < num_frames
    /\ slices' = Append(slices,
                        [part_slice |-> PartSlice(c0, c1, dsSig),
                         start |-> c0, stop |-> c1])
    /\ c0' = c0 + f_per_part
    /\ c1' = c1 + f_per_part
    /\ UNCHANGED <<num_frames, num_partitions, f_per_part, ms_pc>>

\* one pass of the loop that reaches the yield
MakeSlicesYield ==
    /\ ms_pc = "run"
    /\ c0 < num_frames
    /\ LET start == c0
           stop == Min(c1, num_frames)
       IN slices' = Append(slices,
                           [part_slice |-> PartSlice(start, stop, dsSig),
                            start |-> start, stop |-> stop])
    /\ c0' = c0 + f_per_part
    /\ c1' = c1 + f_per_part
    /\ UNCHANGED <<num_frames, num_partitions, f_per_part, ms_pc>>

\* the pass of the loop that breaks: start >= num_frames
MakeSlicesBreak ==
    /\ ms_pc = "run"
    /\ c0 >= num_frames
    /\ ms_pc' = "done"
    /\ UNCHANGED <<num_frames, num_partitions, f_per_part, c0, c1, slices>>

\* ---------------------------------------------------------------- FileSet

\* the Files of a FileSet cover a contiguous frame range, without gaps or
\* overlaps, each File holding at least one frame
Contiguous(fs) ==
    /\ \A i \in 1..Len(fs) : fs[i].start_idx < fs[i].end_idx
    /\ \A i \in 1..(Len(fs) - 1) : fs[i].end_idx = fs[i + 1].start_idx

\* the File lists a dataset can have: 1..MaxFiles files of 1..MaxFileLen
\* frames each, the first one starting at frame 0
RECURSIVE Layout(_, _)
Layout(lens, at) ==
    IF lens = <<>> THEN <<>>
    ELSE <<[start_idx |-> at, end_idx |-> at + Head(lens)]>>
         \o Layout(Tail(lens), at + Head(lens))

FileLayouts ==
    {Layout(lens, 0) : lens \in UNION {[1..n -> 1..MaxFileLen] : n \in 1..MaxFiles}}

\* FileTree.search_start: the position of the File holding `frame`, or of the
\* first File starting at or after it (one past the end when there is none)
SearchStart(fs, frame) ==
    IF \E i \in 1..Len(fs) : fs[i].start_idx <= frame /\ frame < fs[i].end_idx
    THEN CHOOSE i \in 1..Len(fs) : fs[i].start_idx <= frame /\ frame < fs[i].end_idx
    ELSE IF \E i \in 1..Len(fs) : fs[i].start_idx >= frame
    THEN CHOOSE i \in 1..Len(fs) :
            /\ fs[i].start_idx >= frame
            /\ \A j \in 1..Len(fs) : fs[j].start_idx >= frame => i <= j
    ELSE Len(fs) + 1

\* a faulty variant of the loop: it breaks at f.start_idx >= stop
RECURSIVE ScanFrom_Exclusive(_, _, _)
ScanFrom_Exclusive(fs, idx, stop) ==
    IF idx > Len(fs) THEN <<>>
    ELSE IF fs[idx].start_idx >= stop THEN <<>>
    ELSE <<idx>> \o ScanFrom_Exclusive(fs, idx + 1, stop)

\* the loop of _get_files_for_range from position idx on: the positions
\* appended to `files` before the break
RECURSIVE ScanFrom(_, _, _)
ScanFrom(fs, idx, stop) ==
    IF idx > Len(fs) THEN <<>>
    ELSE IF fs[idx].start_idx > stop THEN <<>>
    ELSE <<idx>> \o ScanFrom(fs, idx + 1, stop)

\* FileSet._get_files_for_range, with files_from inlined: the positions (in
\* fs) of the Files returned, or the failed assert
GetFilesForRange(fs, start, stop) ==
    LET found == ScanFrom(fs, SearchStart(fs, start), stop)
    IN IF Len(found) > 0
       THEN [outcome |-> "ok", files |-> found]
       ELSE [outcome |-> "AssertionError", files |-> <<>>]

\* FileSet.__init__ on a list of Files: the assert, then FileTree.make
FileSetInit(fs) ==
    IF Len(fs) = 0 THEN "AssertionError"
    ELSE IF ~Contiguous(fs) THEN "ValueError"
    ELSE "ok"

\* FileSet.get_for_range: _get_files_for_range, then _clone, which builds a
\* new FileSet over the very File objects found
GetForRangeOp(fs, start, stop) ==
    LET got == GetFilesForRange(fs, start, stop)
    IN IF got.outcome # "ok" THEN got
       ELSE [outcome |-> FileSetInit([i \in 1..Len(got.files) |-> fs[got.files[i]]]),
             files |-> got.files]

\* the frames a dataset-wide FileSet covers
FirstFrame(fs) == fs[1].start_idx
EndFrame(fs) == fs[Len(fs)].end_idx

NoCall == [op |-> "none"]

FileSetInitState ==
    /\ files \in FileLayouts
    /\ fsCall = NoCall

\* a call of FileSet.get_for_range(start, stop) on the dataset-wide FileSet
GetForRange ==
    \E start \in FirstFrame(files)..(EndFrame(files) - 1),
       stop \in FirstFrame(files)..EndFrame(files) :
        LET got == GetForRangeOp(files, start, stop)
        IN fsCall' = [op |-> "get_for_range", start |-> start, stop |-> stop,
                      outcome |-> got.outcome, files |-> got.files]
    /\ UNCHANGED files

\* BasePartition.__init__(meta, partition_slice, fileset, start_frame,
\* num_frames): the outcome and, when one is built, the Partition's FileSet
BasePartitionInit(fs, nav_dims, start_frame, nframes) ==
    IF nav_dims # 1
    THEN [outcome |-> "ValueError: nav dims should be flat", files |-> <<>>]
    ELSE LET got == GetForRangeOp(fs, start_frame, start_frame + nframes - 1)
         IN IF got.outcome # "ok" THEN got
            ELSE IF nframes <= 0
            THEN [outcome |-> "ValueError: invalid number of frames", files |-> <<>>]
            ELSE got

\* a construction of a BasePartition over the dataset-wide FileSet
NewBasePartition ==
    \E nav_dims \in 1..2,
       start_frame \in FirstFrame(files)..(EndFrame(files) - 1),
       nframes \in -1..MaxFileLen :
        LET got == BasePartitionInit(files, nav_dims, start_frame, nframes)
        IN fsCall' = [op |-> "BasePartition", nav_dims |-> nav_dims,
                      start_frame |-> start_frame, num_frames |-> nframes,
                      outcome |-> got.outcome, files |-> got.files]
    /\ UNCHANGED files

\* ------------------------------------------------ FileSet read sessions
\* A read session is the backend's  with fileset: ...  block: __enter__,
\* the reads, __exit__.  __exit__ runs when the block is left, normally or by
\* an exception raised inside it; it does not run when __enter__ raised.

\* the File objects of partition p's FileSet
FilesOf(p) == {partFiles[p][i] : i \in 1..Len(partFiles[p])}

\* the partitions start with their FileSet built and no session begun
SessionInit(ids) ==
    /\ parts = ids
    /\ isOpen = [f \in 1..Len(files) |-> FALSE]
    /\ files_open = [p \in ids |-> FALSE]
    /\ se_pc = [p \in ids |-> "new"]
    /\ reads = [p \in ids |-> 0]

\* FileSet.__enter__ running to its end: every File is opened
EnterOk(p) ==
    /\ se_pc[p] = "new"
    /\ isOpen' = [f \in DOMAIN isOpen |-> IF f \in FilesOf(p) THEN TRUE ELSE isOpen[f]]
    /\ files_open' = [files_open EXCEPT ![p] = TRUE]
    /\ se_pc' = [se_pc EXCEPT ![p] = "body"]
    /\ UNCHANGED <<parts, partRange, partFiles, reads>>

\* FileSet.__enter__ when f.open() raises at the File at position n + 1: the
\* n Files before it are open, and the exception leaves __enter__
EnterRaise(p) ==
    /\ se_pc[p] = "new"
    /\ \E n \in 0..(Len(partFiles[p]) - 1) :
         isOpen' = [f \in DOMAIN isOpen |->
                      IF \E i \in 1..n : partFiles[p][i] = f THEN TRUE ELSE isOpen[f]]
    /\ se_pc' = [se_pc EXCEPT ![p] = "failed"]
    /\ UNCHANGED <<parts, partRange, partFiles, files_open, reads>>

\* one read inside the block, from Files that are open
Read(p) ==
    /\ se_pc[p] = "body"
    /\ reads[p] < MaxReads
    /\ \A f \in FilesOf(p) : isOpen[f]
    /\ reads' = [reads EXCEPT ![p] = reads[p] + 1]
    /\ UNCHANGED <<parts, partRange, partFiles, isOpen, files_open, se_pc>>

\* an operation inside the block raises
BodyRaise(p) ==
    /\ se_pc[p] = "body"
    /\ se_pc' = [se_pc EXCEPT ![p] = "raised"]
    /\ UNCHANGED <<parts, partRange, partFiles, isOpen, files_open, reads>>

\* FileSet.__exit__: every File of the set is closed
Exit(p) ==
    /\ se_pc[p] \in {"body", "raised"}
    /\ isOpen' = [f \in DOMAIN isOpen |-> IF f \in FilesOf(p) THEN FALSE ELSE isOpen[f]]
    /\ files_open' = [files_open EXCEPT ![p] = FALSE]
    /\ se_pc' = [se_pc EXCEPT ![p] = IF se_pc[p] = "body" THEN "done" ELSE "failed"]
    /\ UNCHANGED <<parts, partRange, partFiles, reads>>

\* ------------------------------------------- tiles of a BasePartition

\* the ROIs over nav frames 0..n-1: none, or any boolean mask
Rois(n) ==
    {[given |-> FALSE]} \cup {[given |-> TRUE, mask |-> m] : m \in [0..(n - 1) -> BOOLEAN]}

\* whether frame i is read under roi
Selected(r, i) == ~r.given \/ r.mask[i]

\* the frames of [start, stop) read under roi
SelectedIn(r, start, stop) == {i \in start..(stop - 1) : Selected(r, i)}

\* the coordinate of frame i on the compressed nav axis: the number of
\* selected frames before it, counted from the beginning of the dataset
Compressed(r, i) == Cardinality(SelectedIn(r, 0, i))

\* the selected frames of [start, stop) in ascending order
RECURSIVE FramesToRead(_, _, _)
FramesToRead(r, start, stop) ==
    IF start >= stop THEN <<>>
    ELSE (IF Selected(r, start) THEN <<start>> ELSE <<>>)
         \o FramesToRead(r, start + 1, stop)

\* the read ranges compiled for [start, stop): one group per tile, of up to
\* d selected frames, with the tile's origin on the compressed nav axis
RECURSIVE Groups(_, _, _)
Groups(r, todo, d) ==
    IF todo = <<>> THEN <<>>
    ELSE LET n == Min(d, Len(todo))
         IN <<[origin |-> Compressed(r, todo[1]), frames |-> SubSeq(todo, 1, n)]>>
            \o Groups(r, SubSeq(todo, n + 1, Len(todo)), d)

\* BasePartition._get_read_ranges
GetReadRanges(part, r, d) ==
    Groups(r, FramesToRead(r, part.start_frame, part.start_frame + part.num_frames), d)

\* the DataTile the backend yields for one group of read ranges
BackendTile(group, sig) ==
    [origin |-> <<group.origin>> \o Zeros(Len(sig)),
     shape |-> <<Len(group.frames)>> \o sig,
     sig_dims |-> Len(sig)]

\* a BasePartition for frames [s, s + n) of the dataset, as make_slices and
\* BasePartition.__init__ build it, and a generator get_tiles() just made
GetTilesInit ==
    /\ \E s \in 0..(dsNav - 1) : \E n \in 1..(dsNav - s) :
         tl_part = [start_frame |-> s, num_frames |-> n,
                    slice |-> PartSlice(s, s + n, dsSig)]
    /\ tl_validate \in {"pass", "raise"}
    /\ tl_pc = "new"
    /\ tl_log = <<>>
    /\ read_ranges = <<>>
    /\ tl_tiles = <<>>
    /\ macrotile = [outcome |-> "none"]

\* get_tiles: self.validate_tiling_scheme(tiling_scheme)
GetTilesValidate ==
    /\ tl_pc = "new"
    /\ tl_log' = Append(tl_log, "validate_tiling_scheme")
    /\ tl_pc' = IF tl_validate = "pass" THEN "validated" ELSE "error"
    /\ UNCHANGED <<tl_part, tl_validate, read_ranges, tl_tiles, macrotile>>

\* a faulty variant of get_tiles: the read ranges are compiled and handed to the
\* backend before the tiling scheme is validated
GetTilesReadRanges_Eager ==
    /\ tl_pc = "new"
    /\ tl_log' = Append(tl_log, "_get_read_ranges")
    /\ read_ranges' = GetReadRanges(tl_part, roi, depth)
    /\ tl_pc' = "compiled"
    /\ UNCHANGED <<tl_part, tl_validate, tl_tiles, macrotile>>

\* get_tiles: read_ranges = self._get_read_ranges(tiling_scheme, roi)
GetTilesReadRanges ==
    /\ tl_pc = "validated"
    /\ tl_log' = Append(tl_log, "_get_read_ranges")
    /\ read_ranges' = GetReadRanges(tl_part, roi, depth)
    /\ tl_pc' = "compiled"
    /\ UNCHANGED <<tl_part, tl_validate, tl_tiles, macrotile>>

\* get_tiles: yield from io_backend.get_tiles(...), one more tile read
BackendGetTile ==
    /\ tl_pc = "compiled"
    /\ Len(tl_tiles) < Len(read_ranges)
    /\ tl_log' = Append(tl_log, "io_backend.get_tiles")
    /\ tl_tiles' = Append(tl_tiles, BackendTile(read_ranges[Len(tl_tiles) + 1], dsSig))
    /\ UNCHANGED <<tl_part, tl_validate, tl_pc, read_ranges, macrotile>>

\* get_tiles: the backend has no more tiles, the generator ends
BackendExhausted ==
    /\ tl_pc = "compiled"
    /\ Len(tl_tiles) = Len(read_ranges)
    /\ tl_pc' = "exhausted"
    /\ UNCHANGED <<tl_part, tl_validate, tl_log, read_ranges, tl_tiles, macrotile>>

\* the tile get_macrotile builds when get_tiles yields nothing
EmptyMacrotile(part) ==
    [origin |-> <<part.slice.origin[1], 0, 0>>,
     shape |-> <<0>> \o SubSeq(part.slice.shape, 2, Len(part.slice.shape)),
     sig_dims |-> 2]

\* BasePartition.get_macrotile(dest_dtype, roi): next() of get_tiles with a
\* tiling scheme as deep as the partition, or the empty tile
GetMacrotileOp(part, r, validate) ==
    IF validate = "raise" THEN [outcome |-> "error"]
    ELSE LET rr == GetReadRanges(part, r, part.num_frames)
         IN IF rr # <<>>
            THEN [outcome |-> "tile", tile |-> BackendTile(rr[1], dsSig)]
            ELSE [outcome |-> "tile", tile |-> EmptyMacrotile(part)]

GetMacrotile ==
    /\ macrotile' = GetMacrotileOp(tl_part, roi, tl_validate)
    /\ UNCHANGED <<tl_part, tl_validate, tl_pc, tl_log, read_ranges, tl_tiles>>

\* ------------------------------------------------------------- PickUDF

\* the frame values the dtype holds, and its wrap-around
Values == 0..MaxVal
Modulus == MaxVal + 1

\* PickUDF.get_result_buffers: the zero-filled 'single' buffer, one entry per
\* position of the (compressed) nav axis
GetResultBuffers(r, nav) ==
    LET navsize == IF r.given THEN Cardinality(SelectedIn(r, 0, nav)) ELSE nav
    IN [i \in 0..(navsize - 1) |-> 0]

\* PickUDF.process_tile: self.results.intensity[sl] = tile
ProcessTile(buf, tile) ==
    [i \in DOMAIN buf |->
        IF tile.origin <= i /\ i < tile.origin + Len(tile.data)
        THEN tile.data[i - tile.origin + 1]
        ELSE buf[i]]

\* a faulty variant of merge: dest['intensity'][:] = src['intensity']
PickMerge_Overwrite(d, src) == src

\* PickUDF.merge: dest['intensity'][:] += src['intensity']
PickMerge(d, src) == [i \in DOMAIN d |-> (d[i] + src[i]) % Modulus]

\* the buffer of one partition's task: allocated, then process_tile for
\* every tile of the partition in turn
RECURSIVE ProcessTiles(_, _)
ProcessTiles(buf, groups) ==
    IF groups = <<>> THEN buf
    ELSE ProcessTiles(
            ProcessTile(buf, [origin |-> groups[1].origin,
                              data |-> [j \in 1..Len(groups[1].frames) |->
                                          frames[groups[1].frames[j]]]]),
            Tail(groups))

RunPartition(part) ==
    ProcessTiles(GetResultBuffers(roi, dsNav), GetReadRanges(part, roi, depth))

\* the ways to cut nav frames 0..n-1 into partitions: a set of cut points
RECURSIVE CutAt(_, _, _)
CutAt(cuts, from, n) ==
    IF \E c \in cuts : c > from
    THEN LET c == CHOOSE x \in cuts : x > from /\ \A y \in cuts : y > from => x <= y
         IN <<[start_frame |-> from, num_frames |-> c - from]>> \o CutAt(cuts, c, n)
    ELSE <<[start_frame |-> from, num_frames |-> n - from]>>

Splits(n) == {CutAt(cuts, 0, n) : cuts \in SUBSET (1..(n - 1))}

PickInit ==
    /\ frames \in [0..(dsNav - 1) -> Values]
    /\ mg_parts \in Splits(dsNav)
    /\ dest = GetResultBuffers(roi, dsNav)
    /\ merged = {}

\* the result of partition p's task arrives and is merged
MergePartition(p) ==
    /\ p \notin merged
    /\ dest' = PickMerge(dest, RunPartition(mg_parts[p]))
    /\ merged' = merged \cup {p}
    /\ UNCHANGED <<frames, mg_parts>>

\* partition p contributes no frame and its buffer is not sent for merging
SkipPartition(p) ==
    /\ p \notin merged
    /\ GetReadRanges(mg_parts[p], roi, depth) = <<>>
    /\ merged' = merged \cup {p}
    /\ UNCHANGED <<frames, mg_parts, dest>>

\* -------------------------------------------------------- specifications

\* the groups of variables a specification does not use
SlicesIdle ==
    /\ num_frames = 0 /\ num_partitions = 1 /\ f_per_part = 1
    /\ c0 = 0 /\ c1 = 0 /\ slices = <<>> /\ ms_pc = "idle"

SessionIdle ==
    /\ parts = {} /\ partRange = <<>> /\ partFiles = <<>> /\ isOpen = <<>>
    /\ files_open = <<>> /\ se_pc = <<>> /\ reads = <<>>

FileSetIdle ==
    /\ files = <<>> /\ fsCall = NoCall

DatasetIdle ==
    /\ dsNav = 0 /\ roi = [given |-> FALSE] /\ depth = 1

TilesIdle ==
    /\ tl_part = <<>> /\ tl_validate = "pass" /\ tl_pc = "idle" /\ tl_log = <<>>
    /\ read_ranges = <<>> /\ tl_tiles = <<>> /\ macrotile = [outcome |-> "none"]

MergeIdle ==
    /\ frames = <<>> /\ mg_parts = <<>> /\ dest = <<>> /\ merged = {}

vars == <<dsSig, msVars, fsVars, seVars, dsVars, tlVars, mgVars>>

\* Partition.make_slices, one step per pass of its loop
InitSlices ==
    /\ dsSig \in SigShapes
    /\ MakeSlicesInit
    /\ FileSetIdle /\ SessionIdle /\ TilesIdle /\ MergeIdle /\ DatasetIdle

NextSlices ==
    \/ MakeSlicesYield /\ UNCHANGED <<dsSig, fsVars, seVars, dsVars, tlVars, mgVars>>
    \/ MakeSlicesBreak /\ UNCHANGED <<dsSig, fsVars, seVars, dsVars, tlVars, mgVars>>

SpecSlices == InitSlices /\ [][NextSlices]_vars

\* calls on a dataset-wide FileSet
InitFileSet ==
    /\ dsSig = <<2, 2>>
    /\ FileSetInitState
    /\ SlicesIdle /\ SessionIdle /\ TilesIdle /\ MergeIdle /\ DatasetIdle

NextFileSet ==
    \/ GetForRange /\ UNCHANGED <<dsSig, msVars, seVars, dsVars, tlVars, mgVars>>
    \/ NewBasePartition /\ UNCHANGED <<dsSig, msVars, seVars, dsVars, tlVars, mgVars>>

SpecFileSet == InitFileSet /\ [][NextFileSet]_vars

\* the partitions of a run, each BasePartition built over the dataset-wide
\* FileSet for its frame range
PartitionsBuilt(ranges) ==
    /\ partRange = ranges
    /\ partFiles = [p \in DOMAIN ranges |->
                      BasePartitionInit(files, 1, ranges[p].start_frame,
                                        ranges[p].num_frames).files]

\* one read session of one BasePartition's FileSet
InitSession ==
    /\ dsSig = <<2, 2>>
    /\ files \in FileLayouts
    /\ fsCall = NoCall
    /\ \E s \in FirstFrame(files)..(EndFrame(files) - 1) :
         \E n \in 1..(EndFrame(files) - s) :
            PartitionsBuilt(<<[start_frame |-> s, num_frames |-> n]>>)
    /\ SessionInit({1})
    /\ SlicesIdle /\ TilesIdle /\ MergeIdle /\ DatasetIdle

NextSession ==
    \/ \E p \in parts : EnterOk(p) /\ UNCHANGED <<dsSig, msVars, fsVars, dsVars, tlVars, mgVars>>
    \/ \E p \in parts : EnterRaise(p) /\ UNCHANGED <<dsSig, msVars, fsVars, dsVars, tlVars, mgVars>>
    \/ \E p \in parts : Read(p) /\ UNCHANGED <<dsSig, msVars, fsVars, dsVars, tlVars, mgVars>>
    \/ \E p \in parts : BodyRaise(p) /\ UNCHANGED <<dsSig, msVars, fsVars, dsVars, tlVars, mgVars>>
    \/ \E p \in parts : Exit(p) /\ UNCHANGED <<dsSig, msVars, fsVars, dsVars, tlVars, mgVars>>

SpecSession == InitSession /\ [][NextSession]_vars

\* two BasePartitions of one dataset, their read sessions interleaved
InitShared ==
    /\ dsSig = <<2, 2>>
    /\ files \in FileLayouts
    /\ fsCall = NoCall
    /\ \E m \in (FirstFrame(files) + 1)..(EndFrame(files) - 1) :
         PartitionsBuilt(<<[start_frame |-> FirstFrame(files),
                            num_frames |-> m - FirstFrame(files)],
                           [start_frame |-> m, num_frames |-> EndFrame(files) - m]>>)
    /\ SessionInit({1, 2})
    /\ SlicesIdle /\ TilesIdle /\ MergeIdle /\ DatasetIdle

SpecShared == InitShared /\ [][NextSession]_vars

\* BasePartition.get_tiles and get_macrotile on one partition
DatasetInit ==
    /\ dsNav = MaxNav
    /\ roi \in Rois(dsNav)
    /\ depth \in 1..MaxDepth

InitTiles ==
    /\ dsSig \in SigShapes
    /\ DatasetInit
    /\ GetTilesInit
    /\ SlicesIdle /\ FileSetIdle /\ SessionIdle /\ MergeIdle

NextTiles ==
    \/ GetTilesValidate /\ UNCHANGED <<dsSig, msVars, fsVars, seVars, dsVars, mgVars>>
    \/ GetTilesReadRanges /\ UNCHANGED <<dsSig, msVars, fsVars, seVars, dsVars, mgVars>>
    \/ BackendGetTile /\ UNCHANGED <<dsSig, msVars, fsVars, seVars, dsVars, mgVars>>
    \/ BackendExhausted /\ UNCHANGED <<dsSig, msVars, fsVars, seVars, dsVars, mgVars>>
    \/ GetMacrotile /\ UNCHANGED <<dsSig, msVars, fsVars, seVars, dsVars, mgVars>>

SpecTiles == InitTiles /\ [][NextTiles]_vars

\* PickUDF run over a partitioned dataset, the results merged in any order
InitPick ==
    /\ dsSig = <<2, 2>>
    /\ DatasetInit
    /\ PickInit
    /\ SlicesIdle /\ FileSetIdle /\ SessionIdle /\ TilesIdle

NextPick ==
    \/ \E p \in DOMAIN mg_parts :
         MergePartition(p) /\ UNCHANGED <<dsSig, msVars, fsVars, seVars, dsVars, tlVars>>
    \/ \E p \in DOMAIN mg_parts :
         SkipPartition(p) /\ UNCHANGED <<dsSig, msVars, fsVars, seVars, dsVars, tlVars>>

SpecPick == InitPick /\ [][NextPick]_vars

\* ------------------------------------------------------------------ claims

\* C1: every range make_slices yields is non-empty, the first starts at 0,
\* each later one starts where the one before stopped, none reaches past
\* num_frames, and once the generator is exhausted the ranges end at
\* num_frames: their union is exactly [0, num_frames).
MakeSlicesCover ==
    /\ \A i \in 1..Len(slices) :
         /\ slices[i].start < slices[i].stop
         /\ slices[i].start = (IF i = 1 THEN 0 ELSE slices[i - 1].stop)
         /\ slices[i].stop <= num_frames
    /\ ms_pc = "done" =>
         (IF slices = <<>> THEN num_frames = 0
          ELSE slices[Len(slices)].stop = num_frames)

\* make_slices ran to its end on a nav size that is no multiple of
\* num_partitions, and the last range is shorter than the others
MakeSlicesCoverWitness ==
    /\ ms_pc = "done"
    /\ Len(slices) >= 3
    /\ num_frames % num_partitions # 0
    /\ slices[Len(slices)].stop - slices[Len(slices)].start < f_per_part

\* C2: make_slices(shape, k) yields at most k ranges.
MakeSlicesAtMostK ==
    ms_pc = "done" => Len(slices) <= num_partitions

\* the Files of fs that hold at least one frame of the closed range [a, b]
Overlapping(fs, a, b) ==
    {i \in 1..Len(fs) : fs[i].start_idx <= b /\ fs[i].end_idx > a}

\* a sequence of positions lists exactly the set S, in ascending order
ListsAscending(seq, S) ==
    /\ {seq[i] : i \in 1..Len(seq)} = S
    /\ \A i \in 1..(Len(seq) - 1) : seq[i] < seq[i + 1]

GetForRangeHalfOpen ==
    (/\ fsCall.op = "get_for_range"
     /\ fsCall.start < fsCall.stop
     /\ fsCall.outcome = "ok")
    => \A i \in 1..Len(fsCall.files) :
         /\ files[fsCall.files[i]].start_idx < fsCall.stop
         /\ files[fsCall.files[i]].end_idx > fsCall.start

\* C8: constructing a BasePartition (with a flat nav slice) with
\* num_frames <= 0 ends in the ValueError for the number of frames.
BadNumFramesIsValueError ==
    (/\ fsCall.op = "BasePartition"
     /\ fsCall.nav_dims = 1
     /\ fsCall.num_frames <= 0)
    => fsCall.outcome = "ValueError: invalid number of frames"

\* C4: when a read session has ended, by normal completion or by an error
\* raised anywhere from __enter__ on, no File of the FileSet is open.
SessionLeavesNoFileOpen ==
    \A p \in parts :
        se_pc[p] \in {"done", "failed"} => \A f \in FilesOf(p) : ~isOpen[f]

\* C5: a step of one partition's session (its __enter__ or __exit__) never
\* changes the handle of a File another partition's running session uses.
SessionsShareNoHandle ==
    [][\A p \in parts : \A q \in parts \ {p} :
        (se_pc'[p] # se_pc[p] /\ se_pc[q] \in {"body", "raised"})
        => \A f \in FilesOf(q) : isOpen'[f] = isOpen[f]]_vars

\* the nav and the signal part of a tile's shape
NavOf(t) == SubSeq(t.shape, 1, Len(t.shape) - t.sig_dims)
SigOf(t) == SubSeq(t.shape, Len(t.shape) - t.sig_dims + 1, Len(t.shape))

\* C7: when the ROI selects no frame of the partition, get_macrotile returns
\* a tile with 0 frames on its one nav axis, the partition's signal shape as
\* signal extent, and an origin with one coordinate per axis.
EmptyMacrotileWellFormed ==
    (/\ macrotile.outcome # "none"
     /\ tl_validate = "pass"
     /\ SelectedIn(roi, tl_part.start_frame,
                   tl_part.start_frame + tl_part.num_frames) = {})
    => /\ macrotile.outcome = "tile"
       /\ NavOf(macrotile.tile) = <<0>>
       /\ SigOf(macrotile.tile) = dsSig
       /\ Len(macrotile.tile.origin) = Len(macrotile.tile.shape)

\* C9: get_tiles compiles read ranges only after validate_tiling_scheme has
\* passed and reads only after the read ranges are compiled; when validation
\* raises, nothing is compiled, nothing is read and no tile is yielded.
ValidateBeforeIO ==
    /\ \A i \in 1..Len(tl_log) :
         /\ tl_log[i] = "_get_read_ranges" =>
              /\ tl_validate = "pass"
              /\ \E j \in 1..(i - 1) : tl_log[j] = "validate_tiling_scheme"
         /\ tl_log[i] = "io_backend.get_tiles" =>
              \E j \in 1..(i - 1) : tl_log[j] = "_get_read_ranges"
    /\ tl_pc = "error" =>
         /\ tl_log = <<"validate_tiling_scheme">>
         /\ read_ranges = <<>>
         /\ tl_tiles = <<>>
    /\ Len(tl_tiles) > 0 => tl_pc \in {"compiled", "exhausted"}

\* validation raised for a partition that has frames to read
ValidateBeforeIOWitness ==
    /\ tl_pc = "error"
    /\ GetReadRanges(tl_part, roi, depth) # <<>>

\* the buffer a single partition over the whole nav range leaves
WholeResult ==
    PickMerge(GetResultBuffers(roi, dsNav),
              RunPartition([start_frame |-> 0, num_frames |-> dsNav]))

\* C6: once every partition's buffer is merged, in whatever order, the
\* global buffer equals the one a single partition over the whole range gives.
MergeOrderIndependent ==
    merged = DOMAIN mg_parts => dest = WholeResult

\* all of three partitions are merged, one of them contributing no frame,
\* and the result holds a non-zero frame
MergeOrderIndependentWitness ==
    /\ merged = DOMAIN mg_parts
    /\ Len(mg_parts) = 3
    /\ roi.given
    /\ \E p \in DOMAIN mg_parts : GetReadRanges(mg_parts[p], roi, depth) = <<>>
    /\ \E i \in DOMAIN dest : dest[i] # 0

====
